---- MODULE Spec2Model ----
(***************************************************************************)
(* A model of exampleGoCRUD (src/main.go): the users / uuid_map store, the *)
(* record access layer (createUser, getUserByUUID, updateUser, deleteUser) *)
(* and the five HTTP handlers.                                             *)
(*                                                                         *)
(* Spec  : requests are served one after the other; one action is one      *)
(*         whole handler.  A store statement may fail (input "fail").      *)
(* SpecC : requests are served concurrently; one action is one store       *)
(*         statement of a request.  No store statement fails.              *)
(***************************************************************************)
EXTENDS Integers, Sequences, FiniteSets, TLC

\* ------------------------------------------------------------------ bounds

\* createUser is called at most MaxAdds times (each call draws a uuid).
MaxAdds == 2

\* Number of requests that can be in flight at once (SpecC).
NProcs == 2

\* ------------------------------------------------------- program constants

StatusOK == 200
StatusBadRequest == 400
StatusNotFound == 404
StatusMethodNotAllowed == 405
StatusInternalServerError == 500

MethodGet == "GET"
MethodPost == "POST"
MethodPut == "PUT"
MethodDelete == "DELETE"
Methods == {MethodGet, MethodPost, MethodPut, MethodDelete}

\* The errors the record access layer returns.
ErrNil == "nil"
ErrNoRows == "sql.ErrNoRows"
ErrStore == "store error"
\* The handlers' own rejections.
ErrMethod == "Method not allowed"
ErrDecode == "json decode error"
ErrNoId == "ID is required"

\* ---------------------------------------------------------------- inputs

\* The username / age / email / phone of a request body.
FieldSets ==
    { [username |-> "alice", age |-> 30, email |-> "a@x.com", phone |-> "555"],
      [username |-> "bob", age |-> 41, email |-> "b@x.com", phone |-> "556"] }

\* time.Now().Format(time.RFC3339), as opaque instants.
Times == {"T1"}

\* The values uuid.New() returns, in the order it returns them: all distinct.
UuidNames == <<"u1", "u2", "u3", "u4", "u5", "u6">>
NewUUID(n) == UuidNames[n + 1]

\* An identifier no add ever returned, and the missing query parameter.
UnknownId == "zz"
NoId == ""

\* type User struct: ID is json:"-", UUID has no column in the users table.
ZeroUser ==
    [id |-> 0, uuid |-> "", username |-> "", email |-> "", phone |-> "",
     age |-> 0, createAt |-> ""]

\* A request body: valid = FALSE is a body json.Decode rejects.
Body(uid, f) ==
    [valid |-> TRUE, uuid |-> uid, username |-> f.username, age |-> f.age,
     email |-> f.email, phone |-> f.phone]
Malformed ==
    [valid |-> FALSE, uuid |-> "", username |-> "", age |-> 0, email |-> "",
     phone |-> ""]

\* json.NewDecoder(r.Body).Decode(user): ID (json:"-") is never set.
Decode(body) ==
    [ZeroUser EXCEPT !.uuid = body.uuid, !.username = body.username,
                     !.age = body.age, !.email = body.email,
                     !.phone = body.phone]

\* json.NewEncoder(w).Encode(v) of a User: every field but ID.
ToJSON(user) ==
    [uuid |-> user.uuid, username |-> user.username, email |-> user.email,
     phone |-> user.phone, age |-> user.age, createAt |-> user.createAt]

FieldsOf(r) ==
    [username |-> r.username, age |-> r.age, email |-> r.email,
     phone |-> r.phone]

\* ----------------------------------------------------------------- state

VARIABLES
    users,      \* rows of table users: [id, username, age, email, phone, createAt]
    uuid_map,   \* rows of table uuid_map: [id, uuid, user_id]  (user_id is TEXT)
    seqUsers,   \* AUTOINCREMENT of users: the largest id ever assigned
    seqMap,     \* AUTOINCREMENT of uuid_map
    uuidGen,    \* how many uuids uuid.New() has returned
    reqs,       \* SpecC: each in-flight request's position and locals
    last,       \* the last completed request and its response
    known,      \* client side: the identifiers returned by successful adds
    expect,     \* client side: identifier -> the fields its add (by = "add") or its last
                \* successful update (by = "update") gave it, until a delete of it
                \* executes a statement
    delOk,      \* client side: identifiers a delete request answered 200 for
    raced       \* SpecC: a statement ran on a record a concurrent request had removed

store == <<users, uuid_map, seqUsers, seqMap>>
client == <<known, expect, delOk, raced>>
vars == <<users, uuid_map, seqUsers, seqMap, uuidGen, reqs, last, known,
          expect, delOk, raced>>

Procs == 1 .. NProcs

Idle == [pc |-> "idle", uuid |-> "", userID |-> 0, user |-> ZeroUser]

\* last.fail is the statement of the request that failed, 0 when none did.
NoRequest ==
    [op |-> "none", method |-> "", id |-> "", body |-> Malformed, fail |-> 0,
     err |-> ErrNil, status |-> 0, resp |-> <<>>]

\* --------------------------------------------------------- SQL statements

\* SQLite stores an integer bound to a TEXT column as its decimal text, and
\* compares a TEXT column with an INTEGER column by its numeric value.
DecimalText == <<"1", "2", "3", "4", "5", "6">>
ToText(n) == DecimalText[n]
ToNumeric(t) == CHOOSE n \in 1 .. Len(DecimalText) : DecimalText[n] = t

\* SqlInsertUser; the new row's id is the AUTOINCREMENT value after seq.
ExecInsertUser(U, seq, user) ==
    U \cup { [id |-> seq + 1, username |-> user.username, age |-> user.age,
              email |-> user.email, phone |-> user.phone,
              createAt |-> user.createAt] }

\* SqlInsertId
ExecInsertId(M, seq, userID, uuid) ==
    M \cup { [id |-> seq + 1, uuid |-> uuid, user_id |-> ToText(userID)] }

\* SqlSeletUer: users JOIN uuid_map ON u.id = m.user_id WHERE m.uuid = ?
QuerySelectUser(U, M, uuid) ==
    { u \in U : \E m \in M : m.uuid = uuid /\ u.id = ToNumeric(m.user_id) }

\* SqlDeleteUser: DELETE FROM users WHERE id IN (SELECT user_id ... WHERE uuid = ?)
ExecDeleteUser(U, M, uuid) ==
    { u \in U : ~ \E m \in M : m.uuid = uuid /\ u.id = ToNumeric(m.user_id) }

\* SqlDeleteId
ExecDeleteId(M, uuid) == { m \in M : m.uuid # uuid }

\* A wrong SqlUpdateUser: INSERT OR REPLACE, which creates the row when it is gone.
ExecUpdateUserUpsert(U, user, id) ==
    { u \in U : u.id # id }
        \cup { [id |-> id, username |-> user.username, age |-> user.age,
                email |-> user.email, phone |-> user.phone,
                createAt |-> user.createAt] }

\* A wrong SqlUpdateUser: no WHERE clause.
ExecUpdateUserAll(U, user, id) ==
    { [u EXCEPT !.username = user.username, !.age = user.age,
                !.email = user.email, !.phone = user.phone] : u \in U }

\* SqlUpdateUser
ExecUpdateUser(U, user, id) ==
    { IF u.id = id
        THEN [u EXCEPT !.username = user.username, !.age = user.age,
                       !.email = user.email, !.phone = user.phone]
        ELSE u : u \in U }

\* rows.StructScan / db.Get into a User: the columns of users; UUID stays "".
ScanUser(row) ==
    [ZeroUser EXCEPT !.id = row.id, !.username = row.username,
                     !.age = row.age, !.email = row.email,
                     !.phone = row.phone, !.createAt = row.createAt]

\* SqlSelectUsers, the rows in rowid order.
RECURSIVE QuerySelectUsers(_)
QuerySelectUsers(U) ==
    IF U = {} THEN <<>>
    ELSE LET r == CHOOSE x \in U : \A y \in U : x.id <= y.id
         IN  <<ScanUser(r)>> \o QuerySelectUsers(U \ {r})

\* ---------------------------------------------------- record access layer

DB == [users |-> users, uuid_map |-> uuid_map, seqUsers |-> seqUsers,
       seqMap |-> seqMap]

\* createUser; fail = 1: SqlInsertUser fails, fail = 2: SqlInsertId fails.
createUser(db, user, uuid, now, fail) ==
    LET u1 == [user EXCEPT !.uuid = uuid, !.createAt = now]
        userID == db.seqUsers + 1
        db1 == [db EXCEPT !.users = ExecInsertUser(db.users, db.seqUsers, u1),
                          !.seqUsers = userID]
        db2 == [db1 EXCEPT
                  !.uuid_map = ExecInsertId(db1.uuid_map, db1.seqMap, userID, uuid),
                  !.seqMap = @ + 1]
    IN  IF fail = 1 THEN [db |-> db, err |-> ErrStore, user |-> u1]
        ELSE IF fail = 2 THEN [db |-> db1, err |-> ErrStore, user |-> u1]
        ELSE [db |-> db2, err |-> ErrNil, user |-> u1]

\* A wrong getUserByUUID: the scanned record is returned without its UUID.
getUserByUUIDNoUuid(db, uuid, fail) ==
    LET rows == QuerySelectUser(db.users, db.uuid_map, uuid)
    IN  IF fail = 1 THEN [err |-> ErrStore, user |-> ZeroUser]
        ELSE IF rows = {} THEN [err |-> ErrNoRows, user |-> ZeroUser]
        ELSE [err |-> ErrNil,
              user |-> ScanUser(CHOOSE x \in rows : \A y \in rows : x.id <= y.id)]

\* getUserByUUID; fail = 1: SqlSeletUer fails.
getUserByUUID(db, uuid, fail) ==
    LET rows == QuerySelectUser(db.users, db.uuid_map, uuid)
    IN  IF fail = 1 THEN [err |-> ErrStore, user |-> ZeroUser]
        ELSE IF rows = {} THEN [err |-> ErrNoRows, user |-> ZeroUser]
        ELSE [err |-> ErrNil,
              user |-> [ScanUser(CHOOSE x \in rows : \A y \in rows : x.id <= y.id)
                          EXCEPT !.uuid = uuid]]

\* updateUser; fail = 1: the lookup fails, fail = 2: SqlUpdateUser fails.
updateUser(db, user, fail) ==
    LET result == getUserByUUID(db, user.uuid, fail)
    IN  IF result.err # ErrNil THEN [db |-> db, err |-> result.err]
        ELSE IF fail = 2 THEN [db |-> db, err |-> ErrStore]
        ELSE [db |-> [db EXCEPT !.users = ExecUpdateUser(db.users, user, result.user.id)],
              err |-> ErrNil]

\* A wrong deleteUser: the mapping row is removed first.
deleteUserMapFirst(db, uid, fail) ==
    LET db1 == [db EXCEPT !.uuid_map = ExecDeleteId(db.uuid_map, uid)]
        db2 == [db1 EXCEPT !.users = ExecDeleteUser(db1.users, db1.uuid_map, uid)]
    IN  IF fail = 1 THEN [db |-> db, err |-> ErrStore]
        ELSE IF fail = 2 THEN [db |-> db1, err |-> ErrStore]
        ELSE [db |-> db2, err |-> ErrNil]

\* A wrong deleteUser: it only selects the record and removes nothing.
deleteUserSelectOnly(db, uid, fail) ==
    IF fail = 1 THEN [db |-> db, err |-> ErrStore]
    ELSE IF fail = 2 THEN [db |-> db, err |-> ErrStore]
    ELSE [db |-> db, err |-> ErrNil]

\* deleteUser; fail = 1: SqlDeleteUser fails, fail = 2: SqlDeleteId fails.
deleteUser(db, uid, fail) ==
    LET db1 == [db EXCEPT !.users = ExecDeleteUser(db.users, db.uuid_map, uid)]
        db2 == [db1 EXCEPT !.uuid_map = ExecDeleteId(db1.uuid_map, uid)]
    IN  IF fail = 1 THEN [db |-> db, err |-> ErrStore]
        ELSE IF fail = 2 THEN [db |-> db1, err |-> ErrStore]
        ELSE [db |-> db2, err |-> ErrNil]

\* ---------------------------------------------------------------- handlers

\* A wrong method check: DeleteUserHandler accepts every method.
MethodOKLax(op, method) ==
    CASE op = "add" -> method = MethodPost
      [] op = "list" -> method = MethodGet
      [] op = "get" -> method = MethodGet
      [] op = "delete" -> TRUE
      [] op = "update" -> method = MethodPut

\* The handlers' first check: r.Method against the handler's method.
MethodOK(op, method) ==
    CASE op = "add" -> method = MethodPost
      [] op = "list" -> method = MethodGet
      [] op = "get" -> method = MethodGet
      [] op = "delete" -> method = MethodDelete
      [] op = "update" -> method = MethodPut

Commit(db) ==
    /\ users' = db.users
    /\ uuid_map' = db.uuid_map
    /\ seqUsers' = db.seqUsers
    /\ seqMap' = db.seqMap

Respond(op, method, id, body, fail, err, status, resp) ==
    last' = [op |-> op, method |-> method, id |-> id, body |-> body,
             fail |-> IF err = ErrStore THEN fail ELSE 0, err |-> err, status |-> status, resp |-> resp]

Without(f, k) == [x \in DOMAIN f \ {k} |-> f[x]]

AddUserHandler(method, body, now, fail) ==
    IF ~ MethodOK("add", method)
    THEN /\ Respond("add", method, NoId, body, fail, ErrMethod,
                    StatusMethodNotAllowed, <<>>)
         /\ UNCHANGED <<store, uuidGen, reqs, client>>
    ELSE IF ~ body.valid
    THEN /\ Respond("add", method, NoId, body, fail, ErrDecode,
                    StatusBadRequest, <<>>)
         /\ UNCHANGED <<store, uuidGen, reqs, client>>
    ELSE /\ uuidGen < MaxAdds
         /\ LET r == createUser(DB, Decode(body), NewUUID(uuidGen), now, fail)
            IN  /\ Commit(r.db)
                /\ uuidGen' = uuidGen + 1
                /\ IF r.err # ErrNil
                   THEN /\ Respond("add", method, NoId, body, fail, r.err,
                                   StatusInternalServerError, <<>>)
                        /\ UNCHANGED client
                   ELSE /\ Respond("add", method, NoId, body, fail, ErrNil,
                                   StatusOK, <<ToJSON(r.user)>>)
                        /\ known' = known \cup {r.user.uuid}
                        /\ expect' = (r.user.uuid :>
                                         [fields |-> FieldsOf(body), by |-> "add"])
                                          @@ expect
                        /\ UNCHANGED <<delOk, raced>>
         /\ UNCHANGED reqs

GetUsersHandler(method, fail) ==
    /\ UNCHANGED <<store, uuidGen, reqs, client>>
    /\ IF ~ MethodOK("list", method)
       THEN Respond("list", method, NoId, Malformed, fail, ErrMethod,
                    StatusMethodNotAllowed, <<>>)
       ELSE IF fail = 1
       THEN Respond("list", method, NoId, Malformed, fail, ErrStore,
                    StatusInternalServerError, <<>>)
       ELSE Respond("list", method, NoId, Malformed, fail, ErrNil, StatusOK,
                    LET rows == QuerySelectUsers(users)
                    IN  [i \in 1 .. Len(rows) |-> ToJSON(rows[i])])

GetUserHandler(method, uid, fail) ==
    /\ UNCHANGED <<store, uuidGen, reqs, client>>
    /\ IF ~ MethodOK("get", method)
       THEN Respond("get", method, uid, Malformed, fail, ErrMethod,
                    StatusMethodNotAllowed, <<>>)
       ELSE IF uid = NoId
       THEN Respond("get", method, uid, Malformed, fail, ErrNoId,
                    StatusBadRequest, <<>>)
       ELSE LET r == getUserByUUID(DB, uid, fail)
            IN  IF r.err = ErrNoRows
                THEN Respond("get", method, uid, Malformed, fail, r.err,
                             StatusNotFound, <<>>)
                ELSE IF r.err # ErrNil
                THEN Respond("get", method, uid, Malformed, fail, r.err,
                             StatusInternalServerError, <<>>)
                ELSE Respond("get", method, uid, Malformed, fail, ErrNil,
                             StatusOK, <<ToJSON(r.user)>>)

DeleteUserHandler(method, id, fail) ==
    IF ~ MethodOK("delete", method)
    THEN /\ Respond("delete", method, id, Malformed, fail, ErrMethod,
                    StatusMethodNotAllowed, <<>>)
         /\ UNCHANGED <<store, uuidGen, reqs, client>>
    ELSE IF id = NoId
    THEN /\ Respond("delete", method, id, Malformed, fail, ErrNoId,
                    StatusBadRequest, <<>>)
         /\ UNCHANGED <<store, uuidGen, reqs, client>>
    ELSE LET r == deleteUser(DB, id, fail)
         IN  /\ Commit(r.db)
             /\ Respond("delete", method, id, Malformed, fail, r.err,
                        IF r.err # ErrNil THEN StatusInternalServerError
                                          ELSE StatusOK,
                        <<>>)
             /\ delOk' = IF r.err = ErrNil THEN delOk \cup ({id} \cap known)
                                           ELSE delOk
             /\ expect' = IF r.db = DB /\ r.err # ErrNil THEN expect
                                                          ELSE Without(expect, id)
             /\ UNCHANGED <<uuidGen, reqs, known, raced>>

UpdateUserHandler(method, body, fail) ==
    IF ~ MethodOK("update", method)
    THEN /\ Respond("update", method, NoId, body, fail, ErrMethod,
                    StatusMethodNotAllowed, <<>>)
         /\ UNCHANGED <<store, uuidGen, reqs, client>>
    ELSE IF ~ body.valid
    THEN /\ Respond("update", method, NoId, body, fail, ErrDecode,
                    StatusBadRequest, <<>>)
         /\ UNCHANGED <<store, uuidGen, reqs, client>>
    ELSE LET r == updateUser(DB, Decode(body), fail)
         IN  /\ Commit(r.db)
             /\ IF r.err # ErrNil
                THEN Respond("update", method, NoId, body, fail, r.err,
                             StatusBadRequest, <<>>)
                ELSE Respond("update", method, NoId, body, fail, ErrNil,
                             StatusOK, <<ToJSON(Decode(body))>>)
             /\ expect' = IF r.err = ErrNil
                           THEN (body.uuid :>
                                   [fields |-> FieldsOf(body), by |-> "update"])
                                    @@ Without(expect, body.uuid)
                           ELSE expect
             /\ UNCHANGED <<uuidGen, reqs, known, delOk, raced>>

\* ------------------------------------------------------------ sequential

\* The identifiers a client can send: those it was given, an unknown one, none.
ClientIds == known \cup {UnknownId, NoId}

Bodies == { Body(uid, f) : uid \in ClientIds, f \in FieldSets } \cup {Malformed}

Init ==
    /\ users = {}
    /\ uuid_map = {}
    /\ seqUsers = 0
    /\ seqMap = 0
    /\ uuidGen = 0
    /\ reqs = [p \in Procs |-> Idle]
    /\ last = NoRequest
    /\ known = {}
    /\ expect = <<>>
    /\ delOk = {}
    /\ raced = FALSE

\* A request with a method the handler rejects is answered before the
\* handler reads anything else of it: one such request per method stands for all.
Next ==
    \/ \E f \in FieldSets, now \in Times, fail \in 0 .. 2 :
          AddUserHandler(MethodPost, Body(NoId, f), now, fail)
    \/ \E m \in Methods : AddUserHandler(m, Malformed, "T1", 0)
    \/ \E fail \in 0 .. 1 : GetUsersHandler(MethodGet, fail)
    \/ \E m \in Methods \ {MethodGet} : GetUsersHandler(m, 0)
    \/ \E uid \in ClientIds, fail \in 0 .. 1 :
          GetUserHandler(MethodGet, uid, fail)
    \/ \E m \in Methods \ {MethodGet}, uid \in known :
          GetUserHandler(m, uid, 0)
    \/ \E uid \in ClientIds, fail \in 0 .. 2 :
          DeleteUserHandler(MethodDelete, uid, fail)
    \/ \E m \in Methods \ {MethodDelete}, uid \in known :
          DeleteUserHandler(m, uid, 0)
    \/ \E body \in Bodies, fail \in 0 .. 2 :
          UpdateUserHandler(MethodPut, body, fail)
    \/ \E m \in Methods \ {MethodPut}, uid \in known, f \in FieldSets :
          UpdateUserHandler(m, Body(uid, f), 0)

Spec == Init /\ [][Next]_vars

\* ------------------------------------------------------------ concurrent

\* Each request runs its handler's store statements one at a time; other
\* requests' statements run in between.  Requests carry the right method, a
\* body that decodes and an identifier a completed add returned; no
\* statement fails.  SpecC follows the store and the requests in flight:
\* the responses are those of Spec and are not recorded again.

Start(p, pc, uuid, userID, user) ==
    /\ reqs[p].pc = "idle"
    /\ reqs' = [reqs EXCEPT ![p] = [pc |-> pc, uuid |-> uuid,
                                     userID |-> userID, user |-> user]]

Finish(p) == reqs' = [reqs EXCEPT ![p] = Idle]

\* AddUserHandler to createUser's SqlInsertUser and LastInsertId.
StepInsertUser(p, f, now) ==
    /\ uuidGen < MaxAdds
    /\ LET u1 == [Decode(Body(NoId, f)) EXCEPT !.uuid = NewUUID(uuidGen),
                                                !.createAt = now]
       IN  /\ Start(p, "SqlInsertId", u1.uuid, seqUsers + 1, u1)
           /\ users' = ExecInsertUser(users, seqUsers, u1)
    /\ seqUsers' = seqUsers + 1
    /\ uuidGen' = uuidGen + 1
    /\ UNCHANGED <<uuid_map, seqMap, last, client>>

\* createUser's SqlInsertId; the response hands the identifier to the client.
StepInsertId(p) ==
    /\ reqs[p].pc = "SqlInsertId"
    /\ uuid_map' = ExecInsertId(uuid_map, seqMap, reqs[p].userID, reqs[p].uuid)
    /\ seqMap' = seqMap + 1
    /\ known' = known \cup {reqs[p].uuid}
    /\ Finish(p)
    /\ UNCHANGED <<users, seqUsers, uuidGen, last, expect, delOk, raced>>

\* GetUsersHandler: SqlSelectUsers reads the users table.
StepSelectUsers(p) ==
    /\ reqs[p].pc = "idle"
    /\ Len(QuerySelectUsers(users)) = Cardinality(users)
    /\ UNCHANGED vars

\* GetUserHandler: SqlSeletUer reads both tables.
StepSelectUser(p, uid) ==
    /\ reqs[p].pc = "idle"
    /\ getUserByUUID(DB, uid, 0).err \in {ErrNil, ErrNoRows}
    /\ UNCHANGED vars

\* UpdateUserHandler to updateUser's getUserByUUID.
StepUpdateLookup(p, body) ==
    LET result == getUserByUUID(DB, Decode(body).uuid, 0)
    IN  /\ IF result.err # ErrNil
           THEN reqs[p].pc = "idle" /\ UNCHANGED reqs
           ELSE Start(p, "SqlUpdateUser", body.uuid, result.user.id,
                      Decode(body))
        /\ UNCHANGED <<store, uuidGen, last, client>>

\* updateUser's SqlUpdateUser.
StepUpdateUser(p) ==
    /\ reqs[p].pc = "SqlUpdateUser"
    /\ users' = ExecUpdateUser(users, reqs[p].user, reqs[p].userID)
    /\ raced' = (raced \/ ~ \E u \in users : u.id = reqs[p].userID)
    /\ Finish(p)
    /\ UNCHANGED <<uuid_map, seqUsers, seqMap, uuidGen, last, known, expect,
                   delOk>>

\* DeleteUserHandler to deleteUser's SqlDeleteUser.
StepDeleteUser(p, uid) ==
    /\ Start(p, "SqlDeleteId", uid, 0, ZeroUser)
    /\ users' = ExecDeleteUser(users, uuid_map, uid)
    /\ raced' = (raced \/ \E q \in Procs : /\ reqs[q].pc = "SqlDeleteId"
                                            /\ reqs[q].uuid = uid)
    /\ UNCHANGED <<uuid_map, seqUsers, seqMap, uuidGen, last, known, expect,
                   delOk>>

\* deleteUser's SqlDeleteId.
StepDeleteId(p) ==
    /\ reqs[p].pc = "SqlDeleteId"
    /\ uuid_map' = ExecDeleteId(uuid_map, reqs[p].uuid)
    /\ Finish(p)
    /\ UNCHANGED <<users, seqUsers, seqMap, uuidGen, last, client>>

NextC ==
    \E p \in Procs :
       \/ \E f \in FieldSets, now \in Times : StepInsertUser(p, f, now)
       \/ StepInsertId(p)
       \/ StepSelectUsers(p)
       \/ \E uid \in known : StepSelectUser(p, uid)
       \/ \E uid \in known, f \in FieldSets : StepUpdateLookup(p, Body(uid, f))
       \/ StepUpdateUser(p)
       \/ \E uid \in known : StepDeleteUser(p, uid)
       \/ StepDeleteId(p)

SpecC == Init /\ [][NextC]_vars

\* ---------------------------------------------------------------- claims

\* The rows of M that reference the users row u, and the users rows that the
\* mapping row m references (user_id is compared as SQLite compares it).
MapRowsOf(M, u) == { m \in M : ToNumeric(m.user_id) = u.id }
UserRowsOf(U, m) == { u \in U : u.id = ToNumeric(m.user_id) }

HasMapping(M, id) == \E m \in M : m.uuid = id

\* A mapping row for id whose users row is gone.
Orphan(U, M, id) == \E m \in M : m.uuid = id /\ UserRowsOf(U, m) = {}

\* The method each endpoint accepts (spec section 6).
Allowed(op) ==
    CASE op = "add" -> "POST"
      [] op = "get" -> "GET"
      [] op = "list" -> "GET"
      [] op = "update" -> "PUT"
      [] op = "delete" -> "DELETE"
      [] OTHER -> ""

\* A request that passed the method check.
Served(l, op) == l.op = op /\ l.method = Allowed(op)

\* C1: in every state between two requests, store failures included, every
\* users row has exactly one uuid_map row referencing it and every uuid_map
\* row references exactly one users row.
C1_EveryRecordMapped ==
    /\ \A u \in users : Cardinality(MapRowsOf(uuid_map, u)) = 1
    /\ \A m \in uuid_map : Cardinality(UserRowsOf(users, m)) = 1

\* C2: a get of an identifier a successful add returned, with no update of
\* it that succeeded and no delete of it that executed a statement in
\* between, answers 200 with that identifier and the
\* username, age, email and phone of the add (500 when the get's own
\* statement fails), whatever happened to other users.
C2_GetReturnsAdded ==
    (/\ Served(last, "get")
     /\ last.id \in DOMAIN expect
     /\ expect[last.id].by = "add")
        => IF last.fail = 0
           THEN /\ last.status = 200
                /\ Len(last.resp) = 1
                /\ last.resp[1].uuid = last.id
                /\ FieldsOf(last.resp[1]) = expect[last.id].fields
           ELSE last.status = 500

C2_Witness ==
    /\ Served(last, "get")
    /\ last.status = 200
    /\ last.id \in DOMAIN expect
    /\ expect[last.id].by = "add"
    /\ delOk # {}

\* C3: a successful update leaves uuid_map and every other users row as
\* they were and gives the resolved row the request's fields; a get of the
\* identifier after it (no later successful update, no delete of it that
\* executed a statement in between) answers 200
\* with the same identifier and the fields of the update.
C3_UpdateStep ==
    LET uid == last'.body.uuid
        hit == QuerySelectUser(users, uuid_map, uid)
    IN  (Served(last', "update") /\ last'.status = 200)
            => /\ uuid_map' = uuid_map
               /\ seqUsers' = seqUsers /\ seqMap' = seqMap
               /\ Cardinality(hit) = 1
               /\ users \ hit \subseteq users'
               /\ Cardinality(users') = Cardinality(users)
               /\ \A u \in users' \ users :
                     /\ \E h \in hit : h.id = u.id /\ h.createAt = u.createAt
                     /\ FieldsOf(u) = FieldsOf(last'.body)

C3_GetAfterUpdate ==
    (/\ Served(last, "get")
     /\ last.id \in DOMAIN expect
     /\ expect[last.id].by = "update"
     /\ last.fail = 0)
        => /\ last.status = 200
           /\ Len(last.resp) = 1
           /\ last.resp[1].uuid = last.id
           /\ FieldsOf(last.resp[1]) = expect[last.id].fields

\* C3: every step is such an update step and leads to a state where such a
\* get was answered so.
C3_UpdateThenGet == [][C3_UpdateStep /\ C3_GetAfterUpdate']_vars

C3_Witness ==
    /\ Served(last, "get")
    /\ last.status = 200
    /\ last.id \in DOMAIN expect
    /\ expect[last.id].by = "update"
    /\ \E u \in users : FieldsOf(u) # expect[last.id].fields

\* C4: once a delete of an identifier was answered 200, the identifier
\* resolves to no record in any later state, also after later adds, and a
\* get of it answers 404 (500 when the get's own statement fails).
C4_DeletedStaysGone ==
    /\ \A id \in delOk : QuerySelectUser(users, uuid_map, id) = {}
    /\ (Served(last, "get") /\ last.id \in delOk)
          => last.status = (IF last.fail = 0 THEN 404 ELSE 500)

C4_Witness ==
    /\ Served(last, "get")
    /\ last.id \in delOk
    /\ last.status = 404
    /\ \E m \in uuid_map : UserRowsOf(users, m) # {}

\* C5: with no mapping entry for the identifier and no failing statement, a
\* get and an update answer 404, a delete answers 200 with an empty body,
\* and none of them changes the store.
C5_UnknownIdentifier ==
    [][ /\ (/\ Served(last', "get")
            /\ last'.id # NoId
            /\ ~ HasMapping(uuid_map, last'.id)
            /\ last'.fail = 0)
              => (last'.status = 404 /\ UNCHANGED store)
        /\ (/\ Served(last', "update")
            /\ last'.body.valid
            /\ ~ HasMapping(uuid_map, last'.body.uuid)
            /\ last'.fail = 0)
              => (last'.status = 404 /\ UNCHANGED store)
        /\ (/\ Served(last', "delete")
            /\ last'.id # NoId
            /\ ~ HasMapping(uuid_map, last'.id)
            /\ last'.fail = 0)
              => (last'.status = 200 /\ last'.resp = <<>> /\ UNCHANGED store)
      ]_vars

\* C6: a request to any of the five endpoints with another method than the
\* endpoint's is answered 405 and leaves both tables and their counters
\* as they were.
C6_WrongMethod ==
    [][ (last'.op # "none" /\ last'.method # Allowed(last'.op))
          => (last'.status = 405 /\ UNCHANGED <<store, uuidGen>>) ]_vars

C6_Witness ==
    /\ last.op = "delete"
    /\ last.method # "DELETE"
    /\ last.status = 405
    /\ QuerySelectUser(users, uuid_map, last.id) # {}

\* No delete has removed a row: none was answered 200 for a created
\* identifier and none left an orphan mapping.
NoDeletion ==
    /\ delOk = {}
    /\ \A m \in uuid_map : UserRowsOf(users, m) # {}

\* C7: with no deletion so far, a list that answers 200 returns at least as
\* many records as adds succeeded, and for every created user a record
\* carrying its identifier and its current fields.
C7_ListShowsCreated ==
    (Served(last, "list") /\ last.status = 200 /\ NoDeletion)
        => /\ Len(last.resp) >= Cardinality(known)
           /\ \A id \in DOMAIN expect :
                 \E i \in 1 .. Len(last.resp) :
                    /\ last.resp[i].uuid = id
                    /\ FieldsOf(last.resp[i]) = expect[id].fields

\* C8: every handler answers 200 on success, 404 on an unresolved
\* identifier, 400 on a malformed or missing input and 500 on any other
\* failure of a store statement.
C8_StatusMapping ==
    /\ last.err = ErrStore => last.status = 500
    /\ last.err = ErrNoRows => last.status = 404
    /\ last.err \in {ErrDecode, ErrNoId} => last.status = 400
    /\ (last.op # "none" /\ last.err = ErrNil) => last.status = 200

\* C9: a delete whose first statement succeeds and whose second fails
\* answers 500, has removed exactly the users rows the identifier maps to,
\* leaves uuid_map and the counters as they were (nothing is compensated),
\* after which the identifier resolves to nothing; a delete whose first
\* statement fails answers 500 and changes nothing; and a get of an
\* identifier whose mapping row is an orphan answers 404.
C9_DeleteStep ==
    LET id == last'.id
    IN  /\ (Served(last', "delete") /\ last'.fail = 2)
              => /\ last'.status = 500
                 /\ uuid_map' = uuid_map
                 /\ seqUsers' = seqUsers /\ seqMap' = seqMap
                 /\ users' = { u \in users :
                                 ~ \E m \in MapRowsOf(uuid_map, u) : m.uuid = id }
                 /\ HasMapping(uuid_map, id) => Orphan(users', uuid_map', id)
        /\ (Served(last', "delete") /\ last'.fail = 1)
              => (last'.status = 500 /\ UNCHANGED store)
        /\ (/\ Served(last', "get")
            /\ last'.fail = 0
            /\ Orphan(users, uuid_map, id))
              => (last'.status = 404 /\ UNCHANGED store)

\* C9: every step of the program is such a step.
C9_PartialDelete == [][C9_DeleteStep]_vars

C9_Witness ==
    /\ Served(last, "get")
    /\ last.status = 404
    /\ Orphan(users, uuid_map, last.id)

\* No request is in flight.
Quiescent == \A p \in Procs : reqs[p].pc = "idle"

\* C10: when no request is in flight, whatever the interleaving of the
\* statements of the concurrent requests was, every users row has exactly
\* one uuid_map row and every uuid_map row references an existing users row.
C10_QuiescentConsistent ==
    Quiescent
        => /\ \A u \in users : Cardinality(MapRowsOf(uuid_map, u)) = 1
           /\ \A m \in uuid_map : UserRowsOf(users, m) # {}

C10_Witness ==
    /\ Quiescent
    /\ raced
    /\ users # {}

====
